---- MODULE Spec2Model ----
(***************************************************************************)
(* QuickSight governance with Okta: the user governance job                *)
(* (src/src/pkg/qs_user_gov.py) and the asset governance job               *)
(* (src/src/pkg/qs_asset_gov.py) as state machines over the remote         *)
(* QuickSight account, with the log of the API calls an invocation makes.  *)
(***************************************************************************)
EXTENDS Integers, Sequences, FiniteSets, TLC

VARIABLES
    s3_users,           \* the "users" list of the user manifest object in S3
    manifest,           \* handler's local: the list of OktaUser / QuickSightAsset objects
    pc,                 \* position of the invocation in the handler
    i,                  \* index in manifest of the entry being processed
    j,                  \* index of the inner loop over groups / permissions
    current_memberships,\* update_memberships' local list
    qs_namespaces,      \* QuickSight: namespaces of the account
    qs_users,           \* QuickSight: user name -> role (NoUser when not registered)
    qs_groups,          \* QuickSight: groups of the namespace
    qs_members,         \* QuickSight: <<user name, group>> memberships
    calls,              \* the API calls of this invocation, in order, with their outcome
    response,           \* what the invocation returned
    invocation,         \* number of the invocation (1, 2, ...)
    faults,             \* unrelated API errors (throttling) raised so far
    s3_assets,          \* the "assets" list of the asset manifest object in S3
    qs_datasets,        \* QuickSight: the account's dataset summaries, in listing order
    all_datasets,       \* handler's local: the summaries get_all_datasets collected
    qs_permissions,     \* QuickSight: DataSetId -> list of [Principal, Actions]
    dataset_id,         \* handler's local: the resolved DataSetId
    permissions,        \* reset_dataset_permissions' local list
    before,             \* history: the account as the running invocation found it
    okta_app_users,     \* Okta: the users assigned to the application
    okta_user_groups,   \* Okta: user id -> the names of the user's groups
    okta_users,         \* the fetcher handler's local: the decoded answer of get_users
    workers             \* overlapping user governance invocations, each with its position

userVars  == <<s3_users, current_memberships, qs_namespaces, qs_users, qs_members>>
assetVars == <<s3_assets, qs_datasets, all_datasets, qs_permissions, dataset_id, permissions>>
fetcherVars == <<okta_app_users, okta_user_groups, okta_users>>
raceVars  == <<workers>>
vars == <<s3_users, manifest, pc, i, j, current_memberships, qs_namespaces, qs_users,
          qs_groups, qs_members, calls, response, invocation, faults,
          s3_assets, qs_datasets, all_datasets, qs_permissions, dataset_id, permissions,
          before, okta_app_users, okta_user_groups, okta_users, workers>>

(***************************************************************************)
(* Strings.  A name is a TLA+ string; Chars spells it, so that             *)
(* str.startswith and the substring test "x in s" are computed on the      *)
(* characters as Python computes them.                                     *)
(***************************************************************************)
Chars(s) ==
    CASE s = ""               -> << >>
      [] s = "qs_"            -> <<"q","s","_">>
      [] s = "Everyone"       -> <<"E","v","e","r","y","o","n","e">>
      [] s = "qs_role_admin"  -> <<"q","s","_","r","o","l","e","_","a","d","m","i","n">>
      [] s = "qs_role_author" -> <<"q","s","_","r","o","l","e","_","a","u","t","h","o","r">>
      [] s = "qs_role_reader" -> <<"q","s","_","r","o","l","e","_","r","e","a","d","e","r">>
      [] s = "qs_ops"         -> <<"q","s","_","o","p","s">>
      [] s = "qs_hr"          -> <<"q","s","_","h","r">>
      [] s = "group"          -> <<"g","r","o","u","p">>
      [] s = "arn:aws:quicksight:" ->
             <<"a","r","n",":","a","w","s",":","q","u","i","c","k","s","i","g","h","t",":">>
      [] s = "us-east-1"      -> <<"u","s","-","e","a","s","t","-","1">>
      [] s = ":"              -> <<":">>
      [] s = "/"              -> <<"/">>
      [] s = "111122223333"   -> <<"1","1","1","1","2","2","2","2","3","3","3","3">>
      [] s = ":group/"        -> <<":","g","r","o","u","p","/">>
      [] s = ":user/"         -> <<":","u","s","e","r","/">>
      [] s = "default"        -> <<"d","e","f","a","u","l","t">>
      [] s = "bob"            -> <<"b","o","b">>
      [] s = "groupadmin"     -> <<"g","r","o","u","p","a","d","m","i","n">>
      [] s = "sales"          -> <<"s","a","l","e","s">>
      [] s = "hr"             -> <<"h","r">>

\* s.startswith(p)
StartsWith(s, p) ==
    /\ Len(Chars(s)) >= Len(Chars(p))
    /\ SubSeq(Chars(s), 1, Len(Chars(p))) = Chars(p)

RECURSIVE Text(_)
\* the characters of an f-string, given as the list of its pieces
Text(parts) ==
    IF parts = << >> THEN << >> ELSE Chars(Head(parts)) \o Text(Tail(parts))

\* "sub in text" on character lists
Contains(text, sub) ==
    \E k \in 0..(Len(text) - Len(sub)) : SubSeq(text, k + 1, k + Len(sub)) = sub

\* x in xs, for a Python list xs
In(x, xs) == \E k \in 1..Len(xs) : xs[k] = x

\* [x for x in xs if Keep(x)]
Filter(xs, Keep(_)) == SelectSeq(xs, Keep)

\* the set of the elements of a list
Elems(xs) == {xs[k] : k \in 1..Len(xs)}

\* all lists over S of length at most n
SeqsUpTo(S, n) == UNION {[1..m -> S] : m \in 0..n}

(***************************************************************************)
(* Configuration (environment variables set by the CDK stack).             *)
(***************************************************************************)
OKTA_ROLE_NAME       == "QSGovernance-FederatedQuickSightRole"
QS_PREFIX            == "qs_"
QS_ADMIN_OKTA_GROUP  == "qs_role_admin"
QS_AUTHOR_OKTA_GROUP == "qs_role_author"
QS_READER_OKTA_GROUP == "qs_role_reader"
ACCOUNT_ID           == "111122223333"
REGION               == "us-east-1"
DEFAULT_NAMESPACE    == "default"

(***************************************************************************)
(* OktaUser: the dataclass and its __post_init__.                          *)
(***************************************************************************)
\* a QuickSight user name of an IAM identity: "<role name>/<session name>"
QsName(role_name, session) == <<role_name, session>>

qs_groups_of(groups) == Filter(groups, LAMBDA grp : StartsWith(grp, QS_PREFIX))

\* mutant of qs_role_of: the first role-group listed wins
qs_role_of_first_match(groups) ==
    LET hits == Filter(qs_groups_of(groups),
                       LAMBDA grp : grp \in {QS_ADMIN_OKTA_GROUP, QS_AUTHOR_OKTA_GROUP,
                                             QS_READER_OKTA_GROUP})
    IN  IF hits = << >> THEN ""
        ELSE IF Head(hits) = QS_ADMIN_OKTA_GROUP THEN "ADMIN"
        ELSE IF Head(hits) = QS_AUTHOR_OKTA_GROUP THEN "AUTHOR"
        ELSE "READER"

qs_role_of(groups) ==
    IF In(QS_ADMIN_OKTA_GROUP, qs_groups_of(groups)) THEN "ADMIN"
    ELSE IF In(QS_AUTHOR_OKTA_GROUP, qs_groups_of(groups)) THEN "AUTHOR"
    ELSE IF In(QS_READER_OKTA_GROUP, qs_groups_of(groups)) THEN "READER"
    ELSE ""

OktaUser(user) ==
    [username    |-> user.username,
     email       |-> user.email,
     groups      |-> user.groups,
     account_id  |-> user.account_id,
     namespace   |-> user.namespace,
     qs_username |-> QsName(OKTA_ROLE_NAME, user.username),
     qs_groups   |-> qs_groups_of(user.groups),
     qs_role     |-> qs_role_of(user.groups)]

(***************************************************************************)
(* Bounds of the model and the small sets its inputs are drawn from.       *)
(***************************************************************************)
MaxUsers       == 2     \* users in a manifest
MaxGroups      == 2     \* groups of a manifest user
MaxInvocations == 2     \* invocations in sequence
MaxFaults      == 1     \* unrelated API errors raised in a behaviour
MaxRoleGroups  == 3     \* groups of the user in SpecRole
MaxFaultUsers  == 1     \* users in a manifest in SpecFaults
MaxAssets      == 2     \* assets in a manifest
MaxAssetGroups == 2     \* groups of a manifest asset
MaxDatasets    == 2     \* datasets of the account
MaxPermissions == 2     \* permissions the account's datasets start with, in all
MaxAssetRuns   == 1     \* invocations of asset governance
MaxFaultAssets == 1     \* assets in a manifest in SpecManifestFaults
MaxOktaUsers   == 2     \* users assigned to the Okta application
MaxWorkers     == 2     \* overlapping user governance invocations
MaxStoredUsers == 1     \* users of the manifest object the fetcher finds in S3

UserNames      == {"a@x.com", "b@x.com"}
ManifestGroups == {"qs_role_reader", "qs_ops"}
AccountGroups  == {"qs_role_reader", "qs_ops"}
AllGroups      == {"Everyone", "qs_role_admin", "qs_role_author", "qs_role_reader", "qs_ops"}
NoUser         == "NoUser"
AccountRoles   == {"AUTHOR"}

\* the user names QuickSight can hold here: the federation role's sessions
QsNames == {QsName(OKTA_ROLE_NAME, n) : n \in UserNames}

\* ClientError codes
NOT_FOUND     == "ResourceNotFoundException"
INVALID_PARAM == "InvalidParameterValueException"
EXISTS        == "ResourceExistsException"
OTHER_ERROR   == "ThrottlingException"

RoleRank(role) ==
    CASE role = "ADMIN" -> 3 [] role = "AUTHOR" -> 2 [] role = "READER" -> 1 [] OTHER -> 0

(***************************************************************************)
(* The QuickSight API as the jobs use it: the error code a call answers    *)
(* with in the current state ("" when it succeeds).                        *)
(***************************************************************************)
describe_namespace(ns) == IF ns \in qs_namespaces THEN "" ELSE NOT_FOUND

\* mutant of create_namespace: creating a namespace that exists succeeds
create_namespace_idempotent(ns) == ""

create_namespace(ns) == IF ns \in qs_namespaces THEN EXISTS ELSE ""

describe_user(name) == IF qs_users[name] # NoUser THEN "" ELSE NOT_FOUND

register_user(name) == IF qs_users[name] # NoUser THEN EXISTS ELSE ""

\* Role must be one of the service's roles; a role below the user's current
\* one is a downgrade, which update_user may refuse (downgrade = TRUE).
update_user(name, role, downgrade) ==
    IF role = "" THEN INVALID_PARAM
    ELSE IF qs_users[name] = NoUser THEN NOT_FOUND
    ELSE IF RoleRank(role) < RoleRank(qs_users[name]) /\ downgrade THEN INVALID_PARAM
    ELSE ""

delete_user_api(name) == IF qs_users[name] # NoUser THEN "" ELSE NOT_FOUND

describe_group(grp) == IF grp \in qs_groups THEN "" ELSE NOT_FOUND

create_group(grp) == IF grp \in qs_groups THEN EXISTS ELSE ""

list_user_groups(name) == IF qs_users[name] # NoUser THEN "" ELSE NOT_FOUND

\* exists = TRUE: the service refuses a membership that is already there
create_group_membership(name, grp, exists) ==
    IF qs_users[name] = NoUser \/ grp \notin qs_groups THEN NOT_FOUND
    ELSE IF <<name, grp>> \in qs_members /\ exists THEN EXISTS
    ELSE ""

delete_group_membership(name, grp) ==
    IF <<name, grp>> \in qs_members THEN "" ELSE NOT_FOUND

RECURSIVE SetToList(_)
\* a set as the list the service answers with
SetToList(S) ==
    IF S = {} THEN << >>
    ELSE LET x == CHOOSE y \in S : TRUE IN <<x>> \o SetToList(S \ {x})

\* the GroupList of list_user_groups
GroupList(name) == SetToList({g \in qs_groups : <<name, g>> \in qs_members})

(***************************************************************************)
(* Bookkeeping shared by the actions.                                      *)
(***************************************************************************)
\* an API call as the log keeps it
Call(api, target, arg, err) == [api |-> api, i |-> i, target |-> target, arg |-> arg, err |-> err]

\* what a call answers: the unrelated error when one is raised, else the service's answer
Outcome(fault, err) == IF fault THEN OTHER_ERROR ELSE err

Count(flags) == Cardinality({k \in 1..Len(flags) : flags[k]})

CanFault(flags) == faults + Count(flags) <= MaxFaults

Log(entries) == [calls EXCEPT ![invocation] = @ \o entries]

Return(resp) == [response EXCEPT ![invocation] = resp]

\* an exception leaves the handler's try block: the invocation fails
Raise == pc' = "done" /\ response' = Return("FAILURE") /\ UNCHANGED <<i, j>>

\* the handler's for loop: the next manifest entry, or the return after the last one
NextEntry ==
    IF i < Len(manifest)
    THEN pc' = "entry" /\ i' = i + 1 /\ j' = 0 /\ UNCHANGED response
    ELSE pc' = "done" /\ response' = Return("SUCCESS") /\ UNCHANGED <<i, j>>

(***************************************************************************)
(* User governance (qs_user_gov.py).                                       *)
(***************************************************************************)
\* the account's users, groups and memberships, as a record
Account ==
    [namespaces |-> qs_namespaces, users |-> qs_users, groups |-> qs_groups,
     members |-> qs_members, permissions |-> qs_permissions]

\* handler is invoked: one invocation at a time, each after the one before ended
handler_user_gov ==
    /\ pc \in {"idle", "done"}
    /\ invocation < MaxInvocations
    /\ invocation' = invocation + 1
    /\ calls' = Append(calls, << >>)
    /\ response' = Append(response, "")
    /\ pc' = "manifest"
    /\ i' = 0 /\ j' = 0
    /\ manifest' = << >>
    /\ current_memberships' = << >>
    /\ before' = Account
    /\ UNCHANGED <<s3_users, qs_namespaces, qs_users, qs_groups, qs_members, faults>>
    /\ UNCHANGED assetVars
    /\ UNCHANGED <<fetcherVars, raceVars>>

\* mutant of retrieved: the entries are there whatever get_object answered
retrieved_anyway(fault, entries) == entries

\* the entries of the manifest object as the try block leaves them: the empty
\* collection the function starts with when get_object raised a ClientError
retrieved(fault, entries) == IF fault THEN << >> ELSE entries

\* get_user_manifest, and the handler's entry into its loop
get_user_manifest ==
    /\ pc = "manifest"
    /\ \E f \in BOOLEAN :
         LET users == retrieved(f,
                        [k \in 1..Len(s3_users) |->
                           [username   |-> s3_users[k].username,
                            email      |-> s3_users[k].email,
                            groups     |-> s3_users[k].groups,
                            account_id |-> ACCOUNT_ID,
                            namespace  |-> DEFAULT_NAMESPACE]])
         IN  /\ CanFault(<<f>>)
             /\ faults' = faults + Count(<<f>>)
             /\ manifest' = [k \in 1..Len(users) |-> OktaUser(users[k])]
             /\ calls' = Log(<<Call("get_object", "qs-user-governance.json", "",
                                    Outcome(f, ""))>>)
             /\ IF users = << >>
                THEN pc' = "done" /\ response' = Return("SUCCESS") /\ UNCHANGED <<i, j>>
                ELSE pc' = "entry" /\ i' = 1 /\ j' = 0 /\ UNCHANGED response
    /\ UNCHANGED <<s3_users, current_memberships, qs_namespaces, qs_users, qs_groups,
                   qs_members, invocation, before>>
    /\ UNCHANGED assetVars
    /\ UNCHANGED <<fetcherVars, raceVars>>

create_if_not_exists_namespace ==
    /\ pc = "entry"
    /\ LET user == manifest[i] IN
       \E f1, f2 \in BOOLEAN :
         LET e1 == Outcome(f1, describe_namespace(user.namespace))
             e2 == Outcome(f2, create_namespace(user.namespace))
             c1 == Call("describe_namespace", user.namespace, "", e1)
             c2 == Call("create_namespace", user.namespace, "", e2)
         IN  /\ CanFault(<<f1, f2>>)
             /\ (e1 = "" => ~f2)
             /\ faults' = faults + Count(<<f1, f2>>)
             /\ IF e1 = ""
                THEN /\ calls' = Log(<<c1>>)
                     /\ pc' = "register"
                     /\ UNCHANGED <<qs_namespaces, response>>
                ELSE /\ calls' = Log(<<c1, c2>>)
                     /\ IF e2 = ""
                        THEN /\ qs_namespaces' = qs_namespaces \cup {user.namespace}
                             /\ pc' = "register"
                             /\ UNCHANGED response
                        ELSE /\ pc' = "done" /\ response' = Return("FAILURE")
                             /\ UNCHANGED qs_namespaces
    /\ UNCHANGED <<s3_users, manifest, i, j, current_memberships, qs_users, qs_groups,
                   qs_members, invocation, before>>
    /\ UNCHANGED assetVars
    /\ UNCHANGED <<fetcherVars, raceVars>>

\* the user name register_user creates: IamArn's role and SessionName
registered_name(user) == QsName(OKTA_ROLE_NAME, user.email)

\* mutant of should_register: registers whatever the role
should_register_any_role(err, role) == err # ""

\* describe_user raised a ClientError and the user has a role
should_register(err, role) == err # "" /\ role # ""

register_if_not_exists_user ==
    /\ pc = "register"
    /\ LET user == manifest[i] IN
       \E f1, f2 \in BOOLEAN :
         LET e1 == Outcome(f1, describe_user(user.qs_username))
             e2 == Outcome(f2, register_user(registered_name(user)))
             c1 == Call("describe_user", user.qs_username, "", e1)
             c2 == Call("register_user", registered_name(user), user.qs_role, e2)
             registers == should_register(e1, user.qs_role)
         IN  /\ CanFault(<<f1, f2>>)
             /\ (~registers => ~f2)
             /\ faults' = faults + Count(<<f1, f2>>)
             /\ IF ~registers
                THEN /\ calls' = Log(<<c1>>)
                     /\ pc' = "role"
                     /\ UNCHANGED <<qs_users, response>>
                ELSE /\ calls' = Log(<<c1, c2>>)
                     /\ IF e2 = ""
                        THEN /\ qs_users' = [qs_users EXCEPT
                                               ![registered_name(user)] = user.qs_role]
                             /\ pc' = "role"
                             /\ UNCHANGED response
                        ELSE /\ pc' = "done" /\ response' = Return("FAILURE")
                             /\ UNCHANGED qs_users
    /\ UNCHANGED <<s3_users, manifest, i, j, current_memberships, qs_namespaces, qs_groups,
                   qs_members, invocation, before>>
    /\ UNCHANGED assetVars
    /\ UNCHANGED <<fetcherVars, raceVars>>

\* mutant of deletes_on: deletes only a user that is not found
deletes_on_not_found(err) == err = NOT_FOUND

\* the error codes update_role answers with delete_user
deletes_on(err) == err \in {NOT_FOUND, INVALID_PARAM}

\* update_role, with delete_user, and apply_user_governance's use of its result
update_role ==
    /\ pc = "role"
    /\ LET user == manifest[i] IN
       \E f1, f2, downgrade \in BOOLEAN :
         LET e1 == Outcome(f1, update_user(user.qs_username, user.qs_role, downgrade))
             e2 == Outcome(f2, delete_user_api(user.qs_username))
             c1 == Call("update_user", user.qs_username, user.qs_role, e1)
             c2 == Call("delete_user", user.qs_username, "", e2)
             is_downgrade == /\ qs_users[user.qs_username] # NoUser
                             /\ user.qs_role # ""
                             /\ RoleRank(user.qs_role) < RoleRank(qs_users[user.qs_username])
         IN  /\ CanFault(<<f1, f2>>)
             /\ (~deletes_on(e1) => ~f2)
             /\ (~(is_downgrade /\ ~f1) => ~downgrade)
             /\ faults' = faults + Count(<<f1, f2>>)
             /\ IF e1 = ""
                THEN /\ calls' = Log(<<c1>>)
                     /\ qs_users' = [qs_users EXCEPT ![user.qs_username] = user.qs_role]
                     /\ UNCHANGED qs_members
                     /\ IF user.qs_groups # << >>
                        THEN pc' = "groups" /\ j' = 1 /\ UNCHANGED <<i, response>>
                        ELSE NextEntry
                ELSE IF deletes_on(e1)
                THEN /\ calls' = Log(<<c1, c2>>)
                     /\ IF e2 = ""
                        THEN /\ qs_users' = [qs_users EXCEPT ![user.qs_username] = NoUser]
                             /\ qs_members' = {m \in qs_members : m[1] # user.qs_username}
                             /\ NextEntry
                        ELSE /\ Raise
                             /\ UNCHANGED <<qs_users, qs_members>>
                ELSE /\ calls' = Log(<<c1>>)
                     /\ NextEntry
                     /\ UNCHANGED <<qs_users, qs_members>>
    /\ UNCHANGED <<s3_users, manifest, current_memberships, qs_namespaces, qs_groups,
                   invocation, before>>
    /\ UNCHANGED assetVars
    /\ UNCHANGED <<fetcherVars, raceVars>>

\* one iteration of create_if_not_exists_groups' loop over user.qs_groups
create_if_not_exists_groups ==
    /\ pc = "groups"
    /\ LET user == manifest[i]
           grp  == user.qs_groups[j]
       IN
       \E f1, f2 \in BOOLEAN :
         LET e1 == Outcome(f1, describe_group(grp))
             e2 == Outcome(f2, create_group(grp))
             c1 == Call("describe_group", grp, "", e1)
             c2 == Call("create_group", grp, "", e2)
         IN  /\ CanFault(<<f1, f2>>)
             /\ (e1 = "" => ~f2)
             /\ faults' = faults + Count(<<f1, f2>>)
             /\ calls' = Log(IF e1 = "" THEN <<c1>> ELSE <<c1, c2>>)
             /\ qs_groups' = IF e1 # "" /\ e2 = "" THEN qs_groups \cup {grp} ELSE qs_groups
             /\ IF e1 # "" /\ e2 # ""
                THEN Raise
                ELSE /\ IF j < Len(user.qs_groups)
                        THEN pc' = "groups" /\ j' = j + 1
                        ELSE pc' = "memberships" /\ j' = 0
                     /\ UNCHANGED <<i, response>>
    /\ UNCHANGED <<s3_users, manifest, current_memberships, qs_namespaces, qs_users,
                   qs_members, invocation, before>>
    /\ UNCHANGED assetVars
    /\ UNCHANGED <<fetcherVars, raceVars>>

\* get_memberships, called first by update_memberships
get_memberships ==
    /\ pc = "memberships"
    /\ LET user == manifest[i] IN
       \E f \in BOOLEAN :
         LET e == Outcome(f, list_user_groups(user.qs_username)) IN
             /\ CanFault(<<f>>)
             /\ faults' = faults + Count(<<f>>)
             /\ calls' = Log(<<Call("list_user_groups", user.qs_username, "", e)>>)
             /\ IF e = ""
                THEN /\ current_memberships' = GroupList(user.qs_username)
                     /\ pc' = "assign" /\ j' = 1
                     /\ UNCHANGED <<i, response>>
                ELSE /\ Raise
                     /\ UNCHANGED current_memberships
    /\ UNCHANGED <<s3_users, manifest, qs_namespaces, qs_users, qs_groups, qs_members,
                   invocation, before>>
    /\ UNCHANGED assetVars
    /\ UNCHANGED <<fetcherVars, raceVars>>

\* mutant of is_new_membership: ignores the memberships listed
is_new_membership_always(grp, memberships) == TRUE

\* grp not in current_memberships
is_new_membership(grp, memberships) == ~In(grp, memberships)

\* one iteration of update_memberships' first loop: assign user to new groups
update_memberships_assign ==
    /\ pc = "assign"
    /\ LET user == manifest[i]
           grp  == user.qs_groups[j]
           new  == is_new_membership(grp, current_memberships)
       IN
       \E f, exists \in BOOLEAN :
         LET e == Outcome(f, create_group_membership(user.qs_username, grp, exists)) IN
             /\ CanFault(<<f>>)
             /\ (~new => ~f)
             /\ (~(new /\ ~f /\ <<user.qs_username, grp>> \in qs_members) => ~exists)
             /\ faults' = faults + Count(<<f>>)
             /\ calls' = Log(IF new
                             THEN <<Call("create_group_membership", user.qs_username, grp, e)>>
                             ELSE << >>)
             /\ qs_members' = IF new /\ e = ""
                              THEN qs_members \cup {<<user.qs_username, grp>>}
                              ELSE qs_members
             /\ IF new /\ e # ""
                THEN Raise
                ELSE IF j < Len(user.qs_groups)
                THEN pc' = "assign" /\ j' = j + 1 /\ UNCHANGED <<i, response>>
                ELSE IF current_memberships # << >>
                THEN pc' = "remove" /\ j' = 1 /\ UNCHANGED <<i, response>>
                ELSE NextEntry
    /\ UNCHANGED <<s3_users, manifest, current_memberships, qs_namespaces, qs_users,
                   qs_groups, invocation, before>>
    /\ UNCHANGED assetVars
    /\ UNCHANGED <<fetcherVars, raceVars>>

\* mutant of is_old_membership: never removes
is_old_membership_never(grp, groups) == FALSE

\* grp not in user.qs_groups
is_old_membership(grp, groups) == ~In(grp, groups)

\* one iteration of update_memberships' second loop: remove user from old groups
update_memberships_remove ==
    /\ pc = "remove"
    /\ LET user == manifest[i]
           grp  == current_memberships[j]
           old  == is_old_membership(grp, user.qs_groups)
       IN
       \E f \in BOOLEAN :
         LET e == Outcome(f, delete_group_membership(user.qs_username, grp)) IN
             /\ CanFault(<<f>>)
             /\ (~old => ~f)
             /\ faults' = faults + Count(<<f>>)
             /\ calls' = Log(IF old
                             THEN <<Call("delete_group_membership", user.qs_username, grp, e)>>
                             ELSE << >>)
             /\ qs_members' = IF old /\ e = ""
                              THEN qs_members \ {<<user.qs_username, grp>>}
                              ELSE qs_members
             /\ IF old /\ e # ""
                THEN Raise
                ELSE IF j < Len(current_memberships)
                THEN pc' = "remove" /\ j' = j + 1 /\ UNCHANGED <<i, response>>
                ELSE NextEntry
    /\ UNCHANGED <<s3_users, manifest, current_memberships, qs_namespaces, qs_users,
                   qs_groups, invocation, before>>
    /\ UNCHANGED assetVars
    /\ UNCHANGED <<fetcherVars, raceVars>>

(***************************************************************************)
(* The user governance job on an account in any initial state.             *)
(***************************************************************************)
RawUsers == [username : UserNames, email : UserNames,
             groups : SeqsUpTo(ManifestGroups, MaxGroups)]

\* the accounts the job can find: users, groups and memberships live in the namespace
Accounts ==
    {[namespaces |-> {}, users |-> [n \in QsNames |-> NoUser], groups |-> {}, members |-> {}]}
    \cup
    {[namespaces |-> {DEFAULT_NAMESPACE}, users |-> u, groups |-> g, members |-> m] :
        u \in [QsNames -> {NoUser} \cup AccountRoles],
        g \in SUBSET AccountGroups,
        m \in SUBSET (QsNames \X AccountGroups)}

WellFormed(acct) ==
    \A m \in acct.members : acct.users[m[1]] # NoUser /\ m[2] \in acct.groups

\* the Okta fetcher is not part of the behaviour
NoFetcher ==
    /\ okta_app_users = << >>
    /\ okta_user_groups = << >>
    /\ okta_users = << >>

\* no overlapping invocations
NoWorkers == workers = << >>

NoAssets ==
    /\ s3_assets = << >>
    /\ qs_datasets = << >>
    /\ all_datasets = << >>
    /\ qs_permissions = << >>
    /\ dataset_id = ""
    /\ permissions = << >>

Init ==
    /\ s3_users \in SeqsUpTo(RawUsers, MaxUsers)
    /\ \E acct \in {a \in Accounts : WellFormed(a)} :
         /\ qs_namespaces = acct.namespaces
         /\ qs_users = acct.users
         /\ qs_groups = acct.groups
         /\ qs_members = acct.members
    /\ manifest = << >>
    /\ pc = "idle"
    /\ i = 0 /\ j = 0
    /\ current_memberships = << >>
    /\ calls = << >>
    /\ response = << >>
    /\ invocation = 0
    /\ faults = MaxFaults
    /\ NoAssets
    /\ before = Account
    /\ NoFetcher
    /\ NoWorkers

Next ==
    \/ handler_user_gov
    \/ get_user_manifest
    \/ create_if_not_exists_namespace
    \/ register_if_not_exists_user
    \/ update_role
    \/ create_if_not_exists_groups
    \/ get_memberships
    \/ update_memberships_assign
    \/ update_memberships_remove

Spec == Init /\ [][Next]_vars

(***************************************************************************)
(* Role derivation alone: one manifest user with any list of groups, and   *)
(* get_user_manifest building the OktaUser.                                *)
(***************************************************************************)
InitRole ==
    /\ \E groups \in SeqsUpTo(AllGroups, MaxRoleGroups) :
         s3_users = <<[username |-> "a@x.com", email |-> "a@x.com", groups |-> groups]>>
    /\ qs_namespaces = {DEFAULT_NAMESPACE}
    /\ qs_users = [n \in QsNames |-> NoUser]
    /\ qs_groups = {}
    /\ qs_members = {}
    /\ manifest = << >>
    /\ pc = "manifest"
    /\ i = 0 /\ j = 0
    /\ current_memberships = << >>
    /\ calls = << << >> >>
    /\ response = <<"">>
    /\ invocation = 1
    /\ faults = MaxFaults
    /\ NoAssets
    /\ before = Account
    /\ NoFetcher
    /\ NoWorkers

NextRole == get_user_manifest

SpecRole == InitRole /\ [][NextRole]_vars

\* C7: the resolved role of every manifest user is the highest of ADMIN, AUTHOR,
\* READER whose role-group is among the user's groups that start with the prefix,
\* and empty when none is; the order of the groups in the manifest plays no part.
C7_RolePriority ==
    \A k \in 1..Len(manifest) :
      LET matching == {g \in Elems(manifest[k].groups) : StartsWith(g, QS_PREFIX)} IN
        manifest[k].qs_role =
            IF QS_ADMIN_OKTA_GROUP \in matching THEN "ADMIN"
            ELSE IF QS_AUTHOR_OKTA_GROUP \in matching THEN "AUTHOR"
            ELSE IF QS_READER_OKTA_GROUP \in matching THEN "READER"
            ELSE ""

\* a user listing the reader role-group before the admin one has been resolved
C7_Witness ==
    \E k \in 1..Len(manifest) :
        /\ Len(manifest[k].groups) >= 2
        /\ manifest[k].groups[1] = QS_READER_OKTA_GROUP
        /\ In(QS_ADMIN_OKTA_GROUP, manifest[k].groups)
        /\ manifest[k].qs_role = "ADMIN"

(***************************************************************************)
(* Reading the log.                                                        *)
(***************************************************************************)
\* the calls of invocation r made for manifest entry k to one of apis
CallsIn(r, k, apis) == SelectSeq(calls[r], LAMBDA c : c.i = k /\ c.api \in apis)

\* the groups a user is a member of
MembershipsOf(members, name) == {m[2] : m \in {x \in members : x[1] = name}}

\* the running invocation is through with manifest entry k
Ended(k) == invocation >= 1 /\ (i > k \/ (i = k /\ pc = "done"))

GroupSyncApis == {"create_group", "create_group_membership", "delete_group_membership"}

(***************************************************************************)
(* Claims on user governance, the service answering every call from the    *)
(* account's state (Spec).                                                 *)
(***************************************************************************)
\* C1: when update_memberships returns without raising, the user's QuickSight
\* memberships are exactly the prefix-filtered manifest groups; the groups it called
\* create_group_membership for are exactly the manifest groups that were not
\* memberships when it listed them, and the groups it called delete_group_membership
\* for exactly the memberships that are not manifest groups (compared by name).
C1_MembershipsReconciled ==
    [][ /\ (pc = "memberships" /\ pc' = "assign")
            => Elems(current_memberships')
                 = MembershipsOf(qs_members, manifest[i].qs_username)
        /\ (/\ pc \in {"assign", "remove"}
            /\ pc' \notin {"assign", "remove"}
            /\ response'[invocation] # "FAILURE")
            => LET user    == manifest[i]
                   created == SelectSeq(calls'[invocation], LAMBDA c :
                                c.i = i /\ c.api = "create_group_membership")
                   deleted == SelectSeq(calls'[invocation], LAMBDA c :
                                c.i = i /\ c.api = "delete_group_membership")
               IN  /\ MembershipsOf(qs_members', user.qs_username) = Elems(user.qs_groups)
                   /\ {c.arg : c \in Elems(created)}
                        = Elems(user.qs_groups) \ Elems(current_memberships)
                   /\ {c.arg : c \in Elems(deleted)}
                        = Elems(current_memberships) \ Elems(user.qs_groups)
                   /\ \A c \in Elems(created) \cup Elems(deleted) :
                        c.target = user.qs_username /\ c.err = ""
      ]_vars

\* update_memberships has returned for a user it both added to a group and removed
\* from another
C1_Witness ==
    \E k \in 1..Len(manifest) :
        /\ i > k \/ (pc = "done" /\ response[invocation] = "SUCCESS")
        /\ CallsIn(invocation, k, {"create_group_membership"}) # << >>
        /\ CallsIn(invocation, k, {"delete_group_membership"}) # << >>

\* C2: a user registered in QuickSight (under the user's QuickSight name) whose
\* manifest entry resolves to no role is deleted by exactly one delete_user call,
\* and no create_group, create_group_membership or delete_group_membership call is
\* made for that entry.
C2_RolelessUserDeleted ==
    \A k \in 1..Len(manifest) :
        (/\ Ended(k)
         /\ manifest[k].qs_role = ""
         /\ \E c \in Elems(CallsIn(invocation, k, {"describe_user"})) : c.err = "")
        => /\ Len(CallsIn(invocation, k, {"delete_user"})) = 1
           /\ \A c \in Elems(CallsIn(invocation, k, {"delete_user"})) :
                 c.target = manifest[k].qs_username /\ c.err = ""
           /\ CallsIn(invocation, k, GroupSyncApis) = << >>
           /\ (i = k => qs_users[manifest[k].qs_username] = NoUser)

\* a registered user without a role has been processed and is gone
C2_Witness ==
    \E k \in 1..Len(manifest) :
        /\ Ended(k)
        /\ manifest[k].qs_role = ""
        /\ manifest[k].qs_groups # << >>
        /\ \E c \in Elems(CallsIn(invocation, k, {"describe_user"})) : c.err = ""
        /\ Len(CallsIn(invocation, k, {"delete_user"})) = 1
        /\ before.users[manifest[k].qs_username] \in AccountRoles

\* C3: a manifest user none of whose groups is the admin, author or reader
\* role-group resolves to the empty role, and no invocation calls register_user,
\* create_group, create_group_membership or delete_group_membership for that entry,
\* whether or not the user is registered and whatever other groups the user has.
C3_NoRoleNoSync ==
    \A k \in 1..Len(manifest) :
        (Elems(manifest[k].groups)
            \cap {QS_ADMIN_OKTA_GROUP, QS_AUTHOR_OKTA_GROUP, QS_READER_OKTA_GROUP} = {})
        => /\ manifest[k].qs_role = ""
           /\ \A r \in 1..invocation :
                CallsIn(r, k, {"register_user"} \cup GroupSyncApis) = << >>

\* a user with a prefix-matching group but no role-group, not registered, has been
\* processed
C3_Witness ==
    \E k \in 1..Len(manifest) :
        /\ Ended(k)
        /\ manifest[k].qs_role = ""
        /\ manifest[k].qs_groups # << >>
        /\ \E c \in Elems(CallsIn(invocation, k, {"describe_user"})) : c.err = NOT_FOUND
        /\ CallsIn(invocation, k, {"update_user"}) # << >>

\* the membership calls of invocation r
MembershipCalls(r) ==
    SelectSeq(calls[r], LAMBDA c :
        c.api \in {"create_group_membership", "delete_group_membership"})

\* C8 as stated: a second invocation on the same manifest, after a first that
\* returned the success response, calls neither create_group_membership nor
\* delete_group_membership.
C8_SecondRunNoMembershipCalls ==
    (invocation = 2 /\ response[1] = "SUCCESS") => MembershipCalls(2) = << >>

\* no user name is listed twice in the manifest
DistinctUsernames ==
    \A a, b \in 1..Len(s3_users) : a # b => s3_users[a].username # s3_users[b].username

\* C8, amended: a second invocation on the same manifest calls neither
\* create_group_membership nor delete_group_membership, provided the first returned
\* the success response without calling delete_user and the manifest lists no user
\* name twice.
C8_SecondRunNoMembershipCallsAmended ==
    (/\ invocation = 2
     /\ response[1] = "SUCCESS"
     /\ SelectSeq(calls[1], LAMBDA c : c.api = "delete_user") = << >>
     /\ DistinctUsernames)
    => MembershipCalls(2) = << >>

\* a second invocation has returned success after a first that made membership calls
C8_Witness ==
    /\ invocation = 2
    /\ pc = "done"
    /\ response = <<"SUCCESS", "SUCCESS">>
    /\ SelectSeq(calls[1], LAMBDA c : c.api = "delete_user") = << >>
    /\ DistinctUsernames
    /\ Len(s3_users) = 2
    /\ Len(MembershipCalls(1)) >= 2
    /\ MembershipCalls(2) = << >>

\* the calls a first invocation makes for a single new reader when all goes well
SingleReaderCalls ==
    /\ response[1] = "SUCCESS"
    /\ Len(CallsIn(1, 1, {"register_user"})) = 1
    /\ \A c \in Elems(CallsIn(1, 1, {"register_user"})) : c.arg = "READER"
    /\ Len(CallsIn(1, 1, {"update_user"})) = 1
    /\ Len(CallsIn(1, 1, {"create_group"})) = 1
    /\ Len(CallsIn(1, 1, {"create_group_membership"})) = 1
    /\ CallsIn(1, 1, {"delete_user", "delete_group_membership"}) = << >>

\* a manifest of one user whose only group is the reader role-group, on an account
\* with the namespace, without the group and without the user
SingleNewReader ==
    /\ Len(s3_users) = 1
    /\ s3_users[1].groups = <<QS_READER_OKTA_GROUP>>
    /\ before.namespaces = {DEFAULT_NAMESPACE}
    /\ QS_READER_OKTA_GROUP \notin before.groups
    /\ \A n \in QsNames : before.users[n] = NoUser

\* C10 as stated: for a manifest of a single user whose only group is the reader
\* role-group and who is not in QuickSight (namespace present, group absent), the
\* invocation makes 1 register_user call with role READER, 1 update_user call,
\* 1 create_group call, 1 create_group_membership call and no delete call, and
\* returns the success response.
C10_SingleReaderRun ==
    (invocation = 1 /\ pc = "done" /\ SingleNewReader) => SingleReaderCalls

\* C10 holds of the manifests whose user has the user name as email
C10_SingleReaderRunSameEmail ==
    (/\ invocation = 1 /\ pc = "done" /\ SingleNewReader
     /\ s3_users[1].email = s3_users[1].username)
    => SingleReaderCalls

(***************************************************************************)
(* User governance with unrelated API errors: any call may answer with a   *)
(* ClientError that is neither not-found nor invalid-parameter             *)
(* (throttling, access denied), at most MaxFaults times.                   *)
(***************************************************************************)
InitFaults ==
    /\ s3_users \in SeqsUpTo(RawUsers, MaxFaultUsers)
    /\ \E acct \in {a \in Accounts : WellFormed(a)} :
         /\ qs_namespaces = acct.namespaces
         /\ qs_users = acct.users
         /\ qs_groups = acct.groups
         /\ qs_members = acct.members
    /\ manifest = << >>
    /\ pc = "idle"
    /\ i = 0 /\ j = 0
    /\ current_memberships = << >>
    /\ calls = << >>
    /\ response = << >>
    /\ invocation = 0
    /\ faults = 0
    /\ NoAssets
    /\ before = Account
    /\ NoFetcher
    /\ NoWorkers

SpecFaults == InitFaults /\ [][Next]_vars

\* C6, for the QuickSight calls of user governance: an invocation in which a call
\* answered with an error that is neither not-found nor invalid-parameter does not
\* return the success response.
C6_OtherErrorsPropagate ==
    \A r \in 1..invocation :
        response[r] = "SUCCESS"
        => \A c \in Elems(calls[r]) : c.api # "get_object" => c.err # OTHER_ERROR

(***************************************************************************)
(* Asset governance (qs_asset_gov.py).                                     *)
(***************************************************************************)
READ_ACTIONS ==
    <<"quicksight:DescribeDataSet", "quicksight:DescribeDataSetPermissions",
      "quicksight:PassDataSet", "quicksight:DescribeIngestion", "quicksight:ListIngestions">>

\* actions = '': what apply_dataset_governance passes when the permission is not READ
NO_ACTIONS == << >>

\* botocore's ParamValidationError, raised before the request is sent: not a ClientError
PARAM_VALIDATION == "ParamValidationError"

\* the dataclass, with the account_id get_asset_manifest adds
QuickSightAsset(asset) ==
    [name       |-> asset.name,
     category   |-> asset.category,
     namespace  |-> asset.namespace,
     groups     |-> asset.groups,
     permission |-> asset.permission,
     account_id |-> asset.account_id]

\* f"arn:aws:quicksight:{REGION}:{account_id}:group/{namespace}/{group}", as its pieces
GroupArn(account_id, namespace, group) ==
    <<"arn:aws:quicksight:", REGION, ":", account_id, ":group/", namespace, "/", group>>

\* the ARN of a QuickSight user
UserArn(account_id, namespace, user) ==
    <<"arn:aws:quicksight:", REGION, ":", account_id, ":user/", namespace, "/", user>>

\* the first summary whose Name is the asset's name, '' when there is none
get_dataset_id(asset, datasets) ==
    LET hits == {k \in 1..Len(datasets) : datasets[k].Name = asset.name}
    IN  IF hits = {} THEN ""
        ELSE datasets[CHOOSE k \in hits : \A m \in hits : k <= m].DataSetId

\* mutant of is_group_principal: nothing is taken for a group
is_group_principal_never(principal) == FALSE

\* "group" in principal
is_group_principal(principal) == Contains(Text(principal), Chars("group"))

\* no dataset has the empty DataSetId, nor one that is not in the account
describe_data_set_permissions(id) == IF id \in DOMAIN qs_permissions THEN "" ELSE INVALID_PARAM

revoke_permissions(id) == IF id \in DOMAIN qs_permissions THEN "" ELSE INVALID_PARAM

\* Actions must be a non-empty list; the dataset and the principal must exist
grant_permissions(id, namespace, group, actions) ==
    IF actions = NO_ACTIONS THEN PARAM_VALIDATION
    ELSE IF id \notin DOMAIN qs_permissions THEN INVALID_PARAM
    ELSE IF namespace \notin qs_namespaces \/ group \notin qs_groups THEN INVALID_PARAM
    ELSE ""

\* the dataset's permissions once the actions are revoked from the principal
Revoked(perms, principal, actions) ==
    LET less == [k \in 1..Len(perms) |->
                   IF perms[k].Principal = principal
                   THEN [Principal |-> principal,
                         Actions   |-> Filter(perms[k].Actions, LAMBDA a : ~In(a, actions))]
                   ELSE perms[k]]
    IN  Filter(less, LAMBDA perm : perm.Actions # << >>)

\* the dataset's permissions once the actions are granted to the principal
Granted(perms, principal, actions) ==
    IF \E k \in 1..Len(perms) : perms[k].Principal = principal
    THEN [k \in 1..Len(perms) |->
            IF perms[k].Principal = principal
            THEN [Principal |-> principal,
                  Actions   |-> perms[k].Actions
                                \o Filter(actions, LAMBDA a : ~In(a, perms[k].Actions))]
            ELSE perms[k]]
    ELSE Append(perms, [Principal |-> principal, Actions |-> actions])

\* the permission argument of a call that carries none
NoPermission == [Principal |-> << >>, Actions |-> << >>]

\* handler is invoked
handler_asset_gov ==
    /\ pc \in {"idle", "done"}
    /\ invocation < MaxAssetRuns
    /\ invocation' = invocation + 1
    /\ calls' = Append(calls, << >>)
    /\ response' = Append(response, "")
    /\ pc' = "datasets"
    /\ i' = 0 /\ j' = 0
    /\ manifest' = << >>
    /\ all_datasets' = << >>
    /\ dataset_id' = ""
    /\ permissions' = << >>
    /\ before' = Account
    /\ UNCHANGED <<s3_assets, qs_datasets, qs_permissions, qs_groups, faults>>
    /\ UNCHANGED userVars
    /\ UNCHANGED <<fetcherVars, raceVars>>

\* get_all_datasets: the pages of list_data_sets, one after the other; the handler
\* calls it outside its try block, so an error leaves the handler as it is
get_all_datasets ==
    /\ pc = "datasets"
    /\ \E f \in BOOLEAN :
         LET e == Outcome(f, "") IN
             /\ CanFault(<<f>>)
             /\ faults' = faults + Count(<<f>>)
             /\ calls' = Log(<<Call("list_data_sets", ACCOUNT_ID, NoPermission, e)>>)
             /\ IF e = ""
                THEN /\ all_datasets' = qs_datasets
                     /\ pc' = "asset_manifest"
                     /\ UNCHANGED response
                ELSE /\ pc' = "done" /\ response' = Return("UNHANDLED")
                     /\ UNCHANGED all_datasets
    /\ UNCHANGED <<manifest, i, j, qs_groups, invocation, before, s3_assets, qs_datasets,
                   qs_permissions, dataset_id, permissions>>
    /\ UNCHANGED userVars
    /\ UNCHANGED <<fetcherVars, raceVars>>

\* the handler's for loop: the next asset, or the return after the last one
NextAsset ==
    IF i < Len(manifest)
    THEN pc' = "asset" /\ i' = i + 1 /\ j' = 0 /\ UNCHANGED response
    ELSE pc' = "done" /\ response' = Return("SUCCESS") /\ UNCHANGED <<i, j>>

\* get_asset_manifest, and the handler's entry into its loop
get_asset_manifest ==
    /\ pc = "asset_manifest"
    /\ \E f \in BOOLEAN :
         LET assets == retrieved(f,
                         [k \in 1..Len(s3_assets) |->
                            [name       |-> s3_assets[k].name,
                             category   |-> s3_assets[k].category,
                             namespace  |-> s3_assets[k].namespace,
                             groups     |-> s3_assets[k].groups,
                             permission |-> s3_assets[k].permission,
                             account_id |-> ACCOUNT_ID]])
         IN  /\ CanFault(<<f>>)
             /\ faults' = faults + Count(<<f>>)
             /\ manifest' = [k \in 1..Len(assets) |-> QuickSightAsset(assets[k])]
             /\ calls' = Log(<<Call("get_object", "qs-asset-governance.json", NoPermission,
                                    Outcome(f, ""))>>)
             /\ IF assets = << >>
                THEN pc' = "done" /\ response' = Return("SUCCESS") /\ UNCHANGED <<i, j>>
                ELSE pc' = "asset" /\ i' = 1 /\ j' = 0 /\ UNCHANGED response
    /\ UNCHANGED <<qs_groups, invocation, before, s3_assets, qs_datasets, all_datasets,
                   qs_permissions, dataset_id, permissions>>
    /\ UNCHANGED userVars
    /\ UNCHANGED <<fetcherVars, raceVars>>

\* the handler's test of the category and get_dataset_id, then reset_dataset_permissions
\* up to its loop: describe_data_set_permissions is not in a try block
reset_dataset_permissions ==
    /\ pc = "asset"
    /\ LET asset == manifest[i] IN
       IF asset.category # "dataset"
       THEN /\ NextAsset
            /\ UNCHANGED <<calls, faults, dataset_id, permissions>>
       ELSE \E f \in BOOLEAN :
              LET id == get_dataset_id(asset, all_datasets)
                  e  == Outcome(f, describe_data_set_permissions(id))
              IN  /\ CanFault(<<f>>)
                  /\ faults' = faults + Count(<<f>>)
                  /\ dataset_id' = id
                  /\ calls' = Log(<<Call("describe_data_set_permissions", id, NoPermission, e)>>)
                  /\ IF e # ""
                     THEN Raise /\ UNCHANGED permissions
                     ELSE /\ permissions' = qs_permissions[id]
                          /\ IF qs_permissions[id] # << >>
                             THEN pc' = "revoke" /\ j' = 1 /\ UNCHANGED <<i, response>>
                             ELSE IF asset.groups # << >>
                             THEN pc' = "grant" /\ j' = 1 /\ UNCHANGED <<i, response>>
                             ELSE NextAsset
    /\ UNCHANGED <<manifest, qs_groups, invocation, before, s3_assets, qs_datasets,
                   all_datasets, qs_permissions>>
    /\ UNCHANGED userVars
    /\ UNCHANGED <<fetcherVars, raceVars>>

\* one iteration of reset_dataset_permissions' loop: any ClientError of the revoke is
\* caught, and logged when it is an invalid-parameter error
reset_dataset_permissions_revoke ==
    /\ pc = "revoke"
    /\ LET asset      == manifest[i]
           permission == permissions[j]
           principal  == permission.Principal
           actions    == permission.Actions
           grp        == is_group_principal(principal)
       IN
       \E f \in BOOLEAN :
         LET e == Outcome(f, revoke_permissions(dataset_id)) IN
             /\ CanFault(<<f>>)
             /\ (~grp => ~f)
             /\ faults' = faults + Count(<<f>>)
             /\ calls' = Log(IF grp
                             THEN <<Call("RevokePermissions", dataset_id, permission, e)>>
                             ELSE << >>)
             /\ qs_permissions' =
                  IF grp /\ e = ""
                  THEN [qs_permissions EXCEPT ![dataset_id] = Revoked(@, principal, actions)]
                  ELSE qs_permissions
             /\ IF j < Len(permissions)
                THEN pc' = "revoke" /\ j' = j + 1 /\ UNCHANGED <<i, response>>
                ELSE IF asset.groups # << >>
                THEN pc' = "grant" /\ j' = 1 /\ UNCHANGED <<i, response>>
                ELSE NextAsset
    /\ UNCHANGED <<manifest, qs_groups, invocation, before, s3_assets, qs_datasets,
                   all_datasets, dataset_id, permissions>>
    /\ UNCHANGED userVars
    /\ UNCHANGED <<fetcherVars, raceVars>>

\* one iteration of apply_dataset_governance's loop: a ClientError of the grant is
\* caught, any other exception leaves the function
apply_dataset_governance ==
    /\ pc = "grant"
    /\ LET asset     == manifest[i]
           actions   == IF asset.permission = "READ" THEN READ_ACTIONS ELSE NO_ACTIONS
           group     == asset.groups[j]
           principal == GroupArn(asset.account_id, asset.namespace, group)
           grant     == [Principal |-> principal, Actions |-> actions]
       IN
       \E f \in BOOLEAN :
         LET e == Outcome(f, grant_permissions(dataset_id, asset.namespace, group, actions)) IN
             /\ CanFault(<<f>>)
             /\ (actions = NO_ACTIONS => ~f)
             /\ faults' = faults + Count(<<f>>)
             /\ calls' = Log(<<Call("GrantPermissions", dataset_id, grant, e)>>)
             /\ qs_permissions' =
                  IF e = ""
                  THEN [qs_permissions EXCEPT ![dataset_id] = Granted(@, principal, actions)]
                  ELSE qs_permissions
             /\ IF e = PARAM_VALIDATION
                THEN Raise
                ELSE IF j < Len(asset.groups)
                THEN pc' = "grant" /\ j' = j + 1 /\ UNCHANGED <<i, response>>
                ELSE NextAsset
    /\ UNCHANGED <<manifest, qs_groups, invocation, before, s3_assets, qs_datasets,
                   all_datasets, dataset_id, permissions>>
    /\ UNCHANGED userVars
    /\ UNCHANGED <<fetcherVars, raceVars>>

(***************************************************************************)
(* The asset governance job on an account in any initial state.            *)
(***************************************************************************)
AssetNames   == {"sales", "hr"}       \* dataset names a manifest may use
DatasetNames == {"sales"}             \* dataset names of the account
DataSetIds   == <<"ds-1", "ds-2", "ds-3">>
AssetGroups  == {"qs_ops", "qs_hr"}
AssetUsers   == {"bob", "groupadmin"}
OWNER_ACTIONS == READ_ACTIONS \o <<"quicksight:UpdateDataSetPermissions">>

\* dataset entries, and a dashboard entry (a category the handler passes over)
RawAssets ==
    [name : AssetNames, category : {"dataset"}, namespace : {DEFAULT_NAMESPACE},
     groups : SeqsUpTo(AssetGroups, MaxAssetGroups), permission : {"READ", "WRITE"}]
    \cup
    [name : {"sales"}, category : {"dashboard"}, namespace : {DEFAULT_NAMESPACE},
     groups : {<<"qs_ops">>}, permission : {"READ"}]

\* the permissions a dataset can start with: readers that are groups, owners that are users
GroupPermissions ==
    {[Principal |-> GroupArn(ACCOUNT_ID, DEFAULT_NAMESPACE, g), Actions |-> READ_ACTIONS] :
        g \in AssetGroups}

UserPermissions ==
    {[Principal |-> UserArn(ACCOUNT_ID, DEFAULT_NAMESPACE, u), Actions |-> OWNER_ACTIONS] :
        u \in AssetUsers}

\* lists of permissions, one at most for a principal
PermissionLists ==
    {ps \in SeqsUpTo(GroupPermissions \cup UserPermissions, MaxPermissions) :
        \A a, b \in 1..Len(ps) : a # b => ps[a].Principal # ps[b].Principal}

\* the listings of the account: dataset names may repeat, DataSetIds do not
Listings ==
    {[k \in 1..Len(names) |-> [Name |-> names[k], DataSetId |-> DataSetIds[k]]] :
        names \in SeqsUpTo(DatasetNames, MaxDatasets)}

RECURSIVE Total(_, _)
\* the number of permissions of the datasets ids
Total(perms, ids) ==
    IF ids = {} THEN 0
    ELSE LET id == CHOOSE x \in ids : TRUE IN Len(perms[id]) + Total(perms, ids \ {id})

InitAsset ==
    /\ s3_assets \in SeqsUpTo(RawAssets, MaxAssets)
    /\ qs_datasets \in Listings
    /\ qs_permissions \in [{qs_datasets[k].DataSetId : k \in 1..Len(qs_datasets)}
                             -> PermissionLists]
    /\ Total(qs_permissions, DOMAIN qs_permissions) <= MaxPermissions
    /\ qs_namespaces = {DEFAULT_NAMESPACE}
    /\ qs_groups = {"qs_ops"} \cup
                   {g \in AssetGroups :
                      \E id \in DOMAIN qs_permissions :
                         In(GroupArn(ACCOUNT_ID, DEFAULT_NAMESPACE, g),
                            [k \in 1..Len(qs_permissions[id]) |->
                               qs_permissions[id][k].Principal])}
    /\ qs_users = [n \in QsNames |-> NoUser]
    /\ qs_members = {}
    /\ s3_users = << >>
    /\ current_memberships = << >>
    /\ manifest = << >>
    /\ pc = "idle"
    /\ i = 0 /\ j = 0
    /\ all_datasets = << >>
    /\ dataset_id = ""
    /\ permissions = << >>
    /\ calls = << >>
    /\ response = << >>
    /\ invocation = 0
    /\ faults = MaxFaults
    /\ before = Account
    /\ NoFetcher
    /\ NoWorkers

NextAssetGov ==
    \/ handler_asset_gov
    \/ get_all_datasets
    \/ get_asset_manifest
    \/ reset_dataset_permissions
    \/ reset_dataset_permissions_revoke
    \/ apply_dataset_governance

SpecAsset == InitAsset /\ [][NextAssetGov]_vars

(***************************************************************************)
(* Reading the log of an asset governance run.                             *)
(***************************************************************************)
\* the principal is a group: the resource type of its ARN
IsGroupArn(principal) == principal[5] = ":group/"

\* the calls of invocation r with the given api, in order
AssetCalls(r, api) == Filter(calls[r], LAMBDA c : c.api = api)

\* this step ends the loop of reset_dataset_permissions
ResetEnds == pc = "revoke" /\ pc' # "revoke"

\* every group permission the reset read has its revoke call in the log, for the
\* asset and its dataset
AllRevoked ==
    \A p \in Elems(permissions) :
        IsGroupArn(p.Principal)
        => \E c \in Elems(calls'[invocation]) :
              /\ c.api = "RevokePermissions"
              /\ c.i = i
              /\ c.target = dataset_id
              /\ c.arg = p

\* no revoke of a dataset comes after a grant of that dataset
RevokesBeforeGrantsOfDataset ==
    \A r \in 1..Len(calls) : \A a, b \in 1..Len(calls[r]) :
        (a < b /\ calls[r][a].api = "GrantPermissions" /\ calls[r][b].api = "RevokePermissions")
        => calls[r][a].target # calls[r][b].target

\* no revoke of a manifest entry comes after a grant of that entry
RevokesBeforeGrantsOfEntry ==
    \A r \in 1..Len(calls) : \A a, b \in 1..Len(calls[r]) :
        (a < b /\ calls[r][a].api = "GrantPermissions" /\ calls[r][b].api = "RevokePermissions")
        => calls[r][a].i # calls[r][b].i

C5_UnresolvedDatasetSwallowed ==
    ( /\ pc = "done"
      /\ invocation >= 1
      /\ \A k \in 1..Len(manifest) : manifest[k].permission = "READ"
      /\ \E k \in 1..Len(manifest) :
            /\ manifest[k].category = "dataset"
            /\ get_dataset_id(manifest[k], all_datasets) = "" )
    => /\ response[invocation] = "SUCCESS"
       /\ i = Len(manifest)

\* the run of a manifest of one READ dataset asset that resolves: its revoke calls
\* are one for each group permission the dataset had, none for another principal,
\* whose permission stays; its grant calls are one for each manifest group, in
\* order, with READ_ACTIONS; the revokes come first
ReadAssetCalls ==
    LET asset   == manifest[1]
        id      == get_dataset_id(asset, all_datasets)
        pre     == before.permissions[id]
        revokes == AssetCalls(1, "RevokePermissions")
        grants  == AssetCalls(1, "GrantPermissions")
    IN  /\ \A p \in Elems(pre) :
              IF IsGroupArn(p.Principal)
              THEN Cardinality({k \in 1..Len(revokes) : revokes[k].arg = p}) = 1
              ELSE /\ \A k \in 1..Len(revokes) : revokes[k].arg.Principal # p.Principal
                   /\ In(p, qs_permissions[id])
        /\ [k \in 1..Len(grants) |-> grants[k].arg]
             = [k \in 1..Len(asset.groups) |->
                  [Principal |-> GroupArn(ACCOUNT_ID, asset.namespace, asset.groups[k]),
                   Actions   |-> READ_ACTIONS]]
        /\ \A c \in Elems(revokes \o grants) : c.target = id
        /\ RevokesBeforeGrantsOfEntry

\* a run of a manifest of one READ dataset asset that resolves has ended
SingleReadAsset ==
    /\ pc = "done"
    /\ invocation = 1
    /\ Len(manifest) = 1
    /\ manifest[1].category = "dataset"
    /\ manifest[1].permission = "READ"
    /\ get_dataset_id(manifest[1], all_datasets) # ""

\* C9: for a dataset asset that resolves and has permission READ, a run issues one
\* revoke call for each pre-existing group permission and none for a principal that
\* is not a group, whose permissions stay, then one grant call for each manifest
\* group with the READ action list.
C9_ReadAssetCalls == SingleReadAsset => ReadAssetCalls

\* the same, when no user of the dataset has "group" in its ARN
C9_ReadAssetCallsPlainUsers ==
    ( /\ SingleReadAsset
      /\ \A id \in DOMAIN before.permissions : \A p \in Elems(before.permissions[id]) :
            ~IsGroupArn(p.Principal) => ~Contains(Text(p.Principal), Chars("group")) )
    => ReadAssetCalls

(***************************************************************************)
(* Both jobs with unrelated API errors, the read of the manifest object    *)
(* among them: a behaviour starts on an account and a manifest of either   *)
(* job, and any call may answer with a ClientError, at most MaxFaults      *)
(* times.                                                                  *)
(***************************************************************************)
InitAssetFaults ==
    /\ s3_assets \in SeqsUpTo(RawAssets, MaxFaultAssets)
    /\ qs_datasets \in Listings
    /\ qs_permissions \in [{qs_datasets[k].DataSetId : k \in 1..Len(qs_datasets)}
                             -> PermissionLists]
    /\ Total(qs_permissions, DOMAIN qs_permissions) <= MaxPermissions
    /\ qs_namespaces = {DEFAULT_NAMESPACE}
    /\ qs_groups = {"qs_ops"} \cup
                   {g \in AssetGroups :
                      \E id \in DOMAIN qs_permissions :
                         In(GroupArn(ACCOUNT_ID, DEFAULT_NAMESPACE, g),
                            [k \in 1..Len(qs_permissions[id]) |->
                               qs_permissions[id][k].Principal])}
    /\ qs_users = [n \in QsNames |-> NoUser]
    /\ qs_members = {}
    /\ s3_users = << >>
    /\ current_memberships = << >>
    /\ manifest = << >>
    /\ pc = "idle"
    /\ i = 0 /\ j = 0
    /\ all_datasets = << >>
    /\ dataset_id = ""
    /\ permissions = << >>
    /\ calls = << >>
    /\ response = << >>
    /\ invocation = 0
    /\ faults = 0
    /\ before = Account
    /\ NoFetcher
    /\ NoWorkers

InitManifestFaults == InitFaults \/ InitAssetFaults

NextManifestFaults == Next \/ NextAssetGov

SpecManifestFaults == InitManifestFaults /\ [][NextManifestFaults]_vars

\* the calls that change the QuickSight account
MutatingApis ==
    {"create_namespace", "register_user", "update_user", "delete_user", "create_group",
     "create_group_membership", "delete_group_membership",
     "RevokePermissions", "GrantPermissions"}

\* invocation r could not read its manifest object
ManifestUnread(r) ==
    \E c \in Elems(calls[r]) : c.api = "get_object" /\ c.err # ""

\* C11: an invocation of either job whose read of the manifest object failed takes
\* the manifest as empty: it issues no mutating QuickSight call and returns the
\* success response.
C11_UnreadManifestIsNoOp ==
    \A r \in 1..invocation :
        ManifestUnread(r)
        => /\ response[r] = "SUCCESS"
           /\ \A c \in Elems(calls[r]) : c.api \notin MutatingApis

\* an invocation ended whose read failed while the stored manifest had entries
C11_Witness ==
    /\ pc = "done"
    /\ invocation >= 1
    /\ ManifestUnread(invocation)
    /\ response[invocation] = "SUCCESS"
    /\ s3_users # << >> \/ s3_assets # << >>

(***************************************************************************)
(* The Okta fetcher (get_okta_info.py).  A decoded JSON document carries   *)
(* its Python type: the list Okta answers with, or the error object Okta   *)
(* answers with under an error status, which HTTP.request returns like any *)
(* other answer.                                                           *)
(***************************************************************************)
JList(items) == [kind |-> "list", items |-> items]

\* the body of an Okta error answer, as the dict json.loads makes of it
OktaError ==
    [kind |-> "dict",
     keys |-> <<"errorCode", "errorSummary", "errorLink", "errorId", "errorCauses">>]

\* mutant of Iterate: a dict has nothing to iterate over
Iterate_lists_only(json) == IF json.kind = "list" THEN json.items ELSE << >>

\* for x in json: the items of a list, the keys of a dict
Iterate(json) ==
    IF json.kind = "list" THEN json.items
    ELSE [k \in 1..Len(json.keys) |-> [kind |-> "str", value |-> json.keys[k]]]

\* x['key'] raises TypeError when x is a str
Subscriptable(x) == x.kind # "str"

\* how an HTTP request can end: an answer with the list, an answer with an error
\* status, an answer that is not JSON, no answer (the connection fails)
HttpOutcomes == {"ok", "error_status", "not_json", "no_connection"}

\* the exception the request, or the json.loads after it, raises ("" when none)
HttpRaises(outcome) ==
    CASE outcome = "no_connection" -> "HTTPError"
      [] outcome = "not_json"      -> "JSONDecodeError"
      [] OTHER                     -> ""

\* what the log keeps of the request's end
HttpErr(outcome) ==
    CASE outcome = "ok"           -> ""
      [] outcome = "error_status" -> "error status"
      [] OTHER                    -> HttpRaises(outcome)

\* handler is invoked
handler_okta ==
    /\ pc \in {"idle", "done"}
    /\ invocation < MaxInvocations
    /\ invocation' = invocation + 1
    /\ calls' = Append(calls, << >>)
    /\ response' = Append(response, "")
    /\ pc' = "get_users"
    /\ i' = 0 /\ j' = 0
    /\ manifest' = << >>
    /\ okta_users' = << >>
    /\ UNCHANGED <<okta_app_users, okta_user_groups, raceVars, s3_users, faults, before,
                   current_memberships, qs_namespaces, qs_users, qs_groups, qs_members>>
    /\ UNCHANGED assetVars

\* get_users, and build_user_governance_manifest up to its loop
get_users ==
    /\ pc = "get_users"
    /\ \E outcome \in HttpOutcomes :
         LET answer == IF outcome = "ok" THEN JList(okta_app_users) ELSE OktaError IN
             /\ calls' = Log(<<Call("GET", "/apps/app/users", "", HttpErr(outcome))>>)
             /\ IF HttpRaises(outcome) # ""
                THEN Raise /\ UNCHANGED okta_users
                ELSE /\ okta_users' = answer
                     /\ IF Iterate(answer) = << >>
                        THEN pc' = "upload" /\ UNCHANGED <<i, j, response>>
                        ELSE pc' = "build" /\ i' = 1 /\ j' = 0 /\ UNCHANGED response
    /\ UNCHANGED <<manifest, okta_app_users, okta_user_groups, raceVars, s3_users, faults,
                   before, invocation, current_memberships, qs_namespaces, qs_users,
                   qs_groups, qs_members>>
    /\ UNCHANGED assetVars

\* one iteration of build_user_governance_manifest's loop, get_users_groups included
build_user_governance_manifest ==
    /\ pc = "build"
    /\ LET usr == Iterate(okta_users)[i] IN
       IF ~Subscriptable(usr)
       THEN /\ Raise
            /\ UNCHANGED <<calls, manifest>>
       ELSE \E outcome \in HttpOutcomes :
              LET group_memberships ==
                      IF outcome = "ok"
                      THEN JList([k \in 1..Len(okta_user_groups[usr.id]) |->
                                    [kind |-> "dict", name |-> okta_user_groups[usr.id][k]]])
                      ELSE OktaError
                  grps   == Iterate(group_memberships)
                  groups == [k \in 1..Len(grps) |-> grps[k].name]
              IN  /\ calls' = Log(<<Call("GET", usr.id, "", HttpErr(outcome))>>)
                  /\ IF \/ HttpRaises(outcome) # ""
                        \/ \E k \in 1..Len(grps) : ~Subscriptable(grps[k])
                     THEN Raise /\ UNCHANGED manifest
                     ELSE /\ manifest' = Append(manifest,
                                                [username |-> usr.userName,
                                                 email    |-> usr.userName,
                                                 groups   |-> groups])
                          /\ IF i < Len(Iterate(okta_users))
                             THEN pc' = "build" /\ i' = i + 1 /\ UNCHANGED <<j, response>>
                             ELSE pc' = "upload" /\ UNCHANGED <<i, j, response>>
    /\ UNCHANGED <<fetcherVars, raceVars, s3_users, faults, before, invocation,
                   current_memberships, qs_namespaces, qs_users, qs_groups, qs_members>>
    /\ UNCHANGED assetVars

\* upload_to_s3, and the handler's return
upload_to_s3 ==
    /\ pc = "upload"
    /\ \E f \in BOOLEAN :
         LET e == Outcome(f, "") IN
             /\ calls' = Log(<<Call("put_object", "qs-user-governance.json", "", e)>>)
             /\ IF e = ""
                THEN /\ s3_users' = manifest
                     /\ pc' = "done" /\ response' = Return("SUCCESS") /\ UNCHANGED <<i, j>>
                ELSE Raise /\ UNCHANGED s3_users
    /\ UNCHANGED <<manifest, fetcherVars, raceVars, faults, before, invocation,
                   current_memberships, qs_namespaces, qs_users, qs_groups, qs_members>>
    /\ UNCHANGED assetVars

(***************************************************************************)
(* The fetcher on an Okta application in any initial state.                *)
(***************************************************************************)
OktaIds == <<"00u1", "00u2", "00u3">>

\* the users of the application: ids do not repeat
OktaApps ==
    {[k \in 1..Len(names) |-> [kind |-> "dict", id |-> OktaIds[k], userName |-> names[k]]] :
        names \in SeqsUpTo(UserNames, MaxOktaUsers)}

InitOkta ==
    /\ okta_app_users \in OktaApps
    /\ okta_user_groups \in [{okta_app_users[k].id : k \in 1..Len(okta_app_users)}
                               -> SeqsUpTo(ManifestGroups, MaxGroups)]
    /\ okta_users = << >>
    /\ s3_users \in SeqsUpTo(RawUsers, MaxStoredUsers)
    /\ qs_namespaces = {DEFAULT_NAMESPACE}
    /\ qs_users = [n \in QsNames |-> NoUser]
    /\ qs_groups = {}
    /\ qs_members = {}
    /\ manifest = << >>
    /\ pc = "idle"
    /\ i = 0 /\ j = 0
    /\ current_memberships = << >>
    /\ calls = << >>
    /\ response = << >>
    /\ invocation = 0
    /\ faults = MaxFaults
    /\ NoAssets
    /\ before = Account
    /\ NoWorkers

NextOkta ==
    \/ handler_okta
    \/ get_users
    \/ build_user_governance_manifest
    \/ upload_to_s3

SpecOkta == InitOkta /\ [][NextOkta]_vars

\* the positions in the log of invocation r of the calls with the given api
Positions(r, api) == {k \in 1..Len(calls[r]) : calls[r][k].api = api}

\* the log of invocation r: one upload at most; an upload comes after the user-list
\* request and one group request for each user of the application, all answered
\* with the list; a run with a failed request has no upload and, once ended, failed
FetchLogInOrder(r) ==
    LET puts == Positions(r, "put_object")
        gets == Positions(r, "GET")
    IN  /\ Cardinality(puts) <= 1
        /\ puts # {}
           => /\ \A k \in gets : calls[r][k].err = ""
              /\ \A p \in puts : \A k \in gets : k < p
              /\ \E k \in gets : calls[r][k].target = "/apps/app/users"
              /\ \A u \in 1..Len(okta_app_users) :
                    \E k \in gets : calls[r][k].target = okta_app_users[u].id
        /\ (\E k \in gets : calls[r][k].err # "")
           => /\ puts = {}
              /\ (r < invocation \/ pc = "done") => response[r] = "FAILURE"

\* C12: the fetcher issues the upload at most once in a run, and only after the
\* user-list request and the group request of every listed user have succeeded; a
\* run in which a request fails aborts with no upload, and the stored manifest
\* object changes only by an upload that succeeds.
C12_UploadOnlyAfterAllRequests ==
    [][ /\ \A r \in 1..invocation' : FetchLogInOrder(r)'
        /\ s3_users' # s3_users
           => LET log == calls'[invocation'] IN
                  /\ log[Len(log)].api = "put_object"
                  /\ log[Len(log)].err = "" ]_vars

\* a run, on a stored manifest that differs from the application's users, that got
\* the user list and then an error status for a user's groups: it ended in failure
C12_Witness ==
    /\ pc = "done"
    /\ invocation = 1
    /\ response[1] = "FAILURE"
    /\ Len(okta_app_users) = MaxOktaUsers
    /\ \E k \in Positions(1, "GET") :
          calls[1][k].target = okta_app_users[2].id /\ calls[1][k].err = "error status"
    /\ s3_users # << >>

(***************************************************************************)
(* Overlapping user governance invocations.  Each invocation runs the      *)
(* handler on its own copy of the manifest against the one account; a step *)
(* is one API call, and the calls of the invocations interleave.  The      *)
(* invocations are followed through create_if_not_exists_namespace and     *)
(* register_if_not_exists_user for the first manifest user, up to the call *)
(* of update_role.                                                         *)
(***************************************************************************)
\* the call is added to the log of invocation w, which moves to position at
Step(w, at, call) ==
    workers' = [workers EXCEPT ![w] = [pc |-> at, calls |-> Append(@.calls, call),
                                       response |-> IF at = "failed" THEN "FAILURE"
                                                    ELSE @.response]]

\* create_if_not_exists_namespace: the describe_namespace call
worker_describe_namespace(w) ==
    /\ workers[w].pc = "entry"
    /\ LET user == manifest[1]
           e    == describe_namespace(user.namespace)
       IN  Step(w, IF e = "" THEN "register" ELSE "create",
                [api |-> "describe_namespace", target |-> user.namespace, err |-> e])
    /\ UNCHANGED <<s3_users, manifest, pc, i, j, current_memberships, qs_namespaces, qs_users,
                   qs_groups, qs_members, calls, response, invocation, faults, before>>
    /\ UNCHANGED <<assetVars, fetcherVars>>

\* create_if_not_exists_namespace: the create_namespace call of its except block
worker_create_namespace(w) ==
    /\ workers[w].pc = "create"
    /\ LET user == manifest[1]
           e    == create_namespace(user.namespace)
       IN  /\ Step(w, IF e = "" THEN "register" ELSE "failed",
                   [api |-> "create_namespace", target |-> user.namespace, err |-> e])
           /\ qs_namespaces' = IF e = "" THEN qs_namespaces \cup {user.namespace}
                               ELSE qs_namespaces
    /\ UNCHANGED <<s3_users, manifest, pc, i, j, current_memberships, qs_users,
                   qs_groups, qs_members, calls, response, invocation, faults, before>>
    /\ UNCHANGED <<assetVars, fetcherVars>>

\* register_if_not_exists_user: the describe_user call
worker_describe_user(w) ==
    /\ workers[w].pc = "register"
    /\ LET user == manifest[1]
           e    == describe_user(user.qs_username)
       IN  Step(w, IF should_register(e, user.qs_role) THEN "register_user" ELSE "role",
                [api |-> "describe_user", target |-> user.qs_username, err |-> e])
    /\ UNCHANGED <<s3_users, manifest, pc, i, j, current_memberships, qs_namespaces, qs_users,
                   qs_groups, qs_members, calls, response, invocation, faults, before>>
    /\ UNCHANGED <<assetVars, fetcherVars>>

\* register_if_not_exists_user: the register_user call of its except block
worker_register_user(w) ==
    /\ workers[w].pc = "register_user"
    /\ LET user == manifest[1]
           e    == register_user(registered_name(user))
       IN  /\ Step(w, IF e = "" THEN "role" ELSE "failed",
                   [api |-> "register_user", target |-> registered_name(user), err |-> e])
           /\ qs_users' = IF e = ""
                          THEN [qs_users EXCEPT ![registered_name(user)] = user.qs_role]
                          ELSE qs_users
    /\ UNCHANGED <<s3_users, manifest, pc, i, j, current_memberships, qs_namespaces,
                   qs_groups, qs_members, calls, response, invocation, faults, before>>
    /\ UNCHANGED <<assetVars, fetcherVars>>

InitRace ==
    /\ s3_users \in [1..1 -> RawUsers]
    /\ manifest = [k \in 1..Len(s3_users) |->
                     OktaUser([username   |-> s3_users[k].username,
                               email      |-> s3_users[k].email,
                               groups     |-> s3_users[k].groups,
                               account_id |-> ACCOUNT_ID,
                               namespace  |-> DEFAULT_NAMESPACE])]
    /\ \E acct \in {a \in Accounts : WellFormed(a)} :
         /\ qs_namespaces = acct.namespaces
         /\ qs_users = acct.users
         /\ qs_groups = acct.groups
         /\ qs_members = acct.members
    /\ workers = [w \in 1..MaxWorkers |-> [pc |-> "entry", calls |-> << >>, response |-> ""]]
    /\ pc = "idle"
    /\ i = 0 /\ j = 0
    /\ current_memberships = << >>
    /\ calls = << >>
    /\ response = << >>
    /\ invocation = 0
    /\ faults = MaxFaults
    /\ NoAssets
    /\ before = Account
    /\ NoFetcher

NextRace ==
    \E w \in 1..MaxWorkers :
        \/ worker_describe_namespace(w)
        \/ worker_create_namespace(w)
        \/ worker_describe_user(w)
        \/ worker_register_user(w)

SpecRace == InitRace /\ [][NextRace]_vars

\* the calls of invocation w with the given api
WorkerCalls(w, api) == Filter(workers[w].calls, LAMBDA c : c.api = api)

\* C13: overlapping invocations do not coordinate.  Every invocation that saw the
\* namespace missing issues its own create_namespace, whatever the others did; of
\* the create_namespace calls for a namespace one at most succeeds, and an
\* invocation whose call is refused as already existing fails.  The state in which
\* two invocations have both seen the namespace missing and both issued
\* create_namespace is C13_Witness.
C13_UncoordinatedNamespaceCreation ==
    /\ \A w \in 1..Len(workers) :
          LET saw     == WorkerCalls(w, "describe_namespace")
              creates == WorkerCalls(w, "create_namespace")
          IN  /\ Len(creates) <= 1
              /\ creates # << >> => saw # << >> /\ saw[1].err = NOT_FOUND
              /\ (saw # << >> /\ saw[1].err = NOT_FOUND /\ workers[w].pc # "create")
                 => creates # << >>
              /\ (creates # << >> /\ creates[1].err # "")
                 => workers[w].response = "FAILURE"
    /\ Cardinality({w \in 1..Len(workers) :
                      \E c \in Elems(WorkerCalls(w, "create_namespace")) : c.err = ""}) <= 1

\* two invocations both saw the namespace missing and both issued create_namespace
C13_Witness ==
    /\ Len(workers) >= 2
    /\ \A w \in 1..2 :
          /\ \E c \in Elems(WorkerCalls(w, "describe_namespace")) : c.err = NOT_FOUND
          /\ WorkerCalls(w, "create_namespace") # << >>
    /\ WorkerCalls(1, "create_namespace")[1].target = WorkerCalls(2, "create_namespace")[1].target

(***************************************************************************)
(* Implicit properties of the two governance jobs.                         *)
(***************************************************************************)
\* the first manifest user resolves to no role and neither of the user's names is
\* in QuickSight when the first invocation starts; the invocation is past that user
UnregisteredRolelessDone ==
    /\ invocation = 1
    /\ Len(manifest) >= 1
    /\ manifest[1].qs_role = ""
    /\ before.users[manifest[1].qs_username] = NoUser
    /\ before.users[registered_name(manifest[1])] = NoUser
    /\ pc = "done" \/ i > 1

\* C14: processing a manifest user who is not registered and resolves to no role
\* issues no delete_user call and does not raise: the invocation goes on to the next
\* user, or returns success when there is none.
C14_UnregisteredRolelessSkipped ==
    UnregisteredRolelessDone
    => /\ CallsIn(1, 1, {"delete_user"}) = << >>
       /\ ~(pc = "done" /\ i = 1 /\ response[1] = "FAILURE")

\* the datasets' permissions hold the READ actions for the group
HoldsRead(perms, group) ==
    \E k \in 1..Len(perms) :
        /\ perms[k].Principal = GroupArn(ACCOUNT_ID, DEFAULT_NAMESPACE, group)
        /\ \A a \in Elems(READ_ACTIONS) : In(a, perms[k].Actions)

\* entry k of the manifest is a READ dataset entry that resolves, with groups that exist
GovernedRead(k) ==
    /\ manifest[k].category = "dataset"
    /\ manifest[k].permission = "READ"
    /\ get_dataset_id(manifest[k], all_datasets) # ""
    /\ manifest[k].namespace \in qs_namespaces
    /\ \A g \in Elems(manifest[k].groups) : g \in qs_groups

\* every group of every governed READ entry holds the READ actions on its dataset
GroupsHoldRead ==
    \A k \in 1..Len(manifest) :
        GovernedRead(k)
        => \A g \in Elems(manifest[k].groups) :
              HoldsRead(qs_permissions[get_dataset_id(manifest[k], all_datasets)], g)

\* C15: after an asset governance invocation returned success, every group listed
\* in a READ dataset entry that resolves and whose groups exist holds the READ
\* actions on the dataset, also when several entries name the same dataset.
C15_GroupsHoldReadAfterSuccess ==
    (pc = "done" /\ invocation = 1 /\ response[1] = "SUCCESS") => GroupsHoldRead

\* the same, for the manifests that name no dataset in two dataset entries
C15_GroupsHoldReadDistinctDatasets ==
    ( /\ pc = "done" /\ invocation = 1 /\ response[1] = "SUCCESS"
      /\ \A a, b \in 1..Len(manifest) :
            (a # b /\ manifest[a].category = "dataset" /\ manifest[b].category = "dataset")
            => manifest[a].name # manifest[b].name )
    => GroupsHoldRead

\* C16: the identity register_user creates for a manifest user is the identity the
\* other calls made for that user address (describe_user, update_user, delete_user,
\* list_user_groups and the membership calls), which is the federation role with the
\* username field, also when username and email differ.
C16_RegisteredIdentityIsAddressed ==
    \A r \in 1..invocation : \A c, d \in Elems(calls[r]) :
        ( /\ c.api = "register_user"
          /\ d.i = c.i
          /\ d.api \in {"describe_user", "update_user", "delete_user", "list_user_groups",
                        "create_group_membership", "delete_group_membership"} )
        => /\ d.target = c.target
           /\ c.target = QsName(OKTA_ROLE_NAME, s3_users[c.i].username)

\* the same, for the manifests whose users have the user name as email
C16_RegisteredIdentityIsAddressedSameEmail ==
    (\A k \in 1..Len(s3_users) : s3_users[k].email = s3_users[k].username)
    => \A r \in 1..invocation : \A c, d \in Elems(calls[r]) :
          ( /\ c.api = "register_user"
            /\ d.i = c.i
            /\ d.api \in {"describe_user", "update_user", "delete_user", "list_user_groups",
                          "create_group_membership", "delete_group_membership"} )
          => d.target = c.target

====
